---- MODULE Spec2Model ----
(***************************************************************************)
(* State-machine model of the beetle code-search engine core              *)
(* (crates/engine): the filesystem storage (FsStorage), the catalog        *)
(* (IndexCatalog), the incremental writer (IndexWriter::index) and the     *)
(* searcher (IndexSearcher).  The inverted index itself is the tantivy     *)
(* library: it is modelled by its transactional contract (operations are   *)
(* queued in the writer, commit publishes them atomically, a directory     *)
(* lock admits one writer, readers hold a loaded generation).              *)
(***************************************************************************)
EXTENDS Integers, Sequences, FiniteSets, TLC

\* ---------------------------------------------------------------- bounds
MaxSize == 1
MaxTime == 2
MaxCopies == 2
MaxPending == 2
MaxRecords == 2
MaxBlob == 64

\* ------------------------------------------------------------- universes
Names == {"a", "b"}
NameOrder == <<"a", "b">>
Targets == {"t1", "t2"}
Paths == {"t1/x.rs", "t1/y.rs"}
WriterIds == {"w1", "w2"}
SearcherIds == {"s1"}
CallIds == {"c1", "c2"}

PathDir(p) == "t1"

FileStats == [size : 1..MaxSize, modified_time : 1..MaxTime]
\* the states the environment gives each file: x.rs is rewritten over
\* time, y.rs is only created and deleted
StatsOf(p) ==
    IF p = "t1/x.rs" THEN FileStats
    ELSE {[size |-> 1, modified_time |-> 1]}

NoFile == [size |-> 0, modified_time |-> 0]

\* FileIndexMetadata { path, size, modified_time }
FileIndexMetadata(p, st) ==
    [path |-> p, size |-> st.size, modified_time |-> st.modified_time]

\* IndexStorageMetadata { index_name, index_dir, target_path }; index_dir is
\* always <root>/<index_name> and is represented by index_name.
IndexStorageMetadata(name, target) ==
    [present |-> TRUE, index_name |-> name, target_path |-> target]
NoMeta == [present |-> FALSE, index_name |-> "", target_path |-> ""]

\* contents of file_index_snapshot.json
NoSnapshot == [kind |-> "absent", records |-> <<>>]
CorruptSnapshot == [kind |-> "corrupt", records |-> <<>>]
SnapshotOf(xs) == [kind |-> "ok", records |-> xs]

\* a document of the inverted index: the path field and the content read
\* from the file (identified by the file's state when it was read)
Docs == [path : Paths, content : FileStats \cup {NoFile}]
NoDocs == [d \in Docs |-> 0]

\* one directory <root>/<index_name>: meta.json, file_index_snapshot.json,
\* index/ with its committed documents (a multiset) and its writer lock
AbsentDir ==
    [exists |-> FALSE, meta |-> NoMeta, snapshot |-> NoSnapshot,
     index |-> FALSE, docs |-> NoDocs, locked |-> FALSE]

Ok(v) == [ok |-> TRUE, err |-> "", value |-> v]
Err(e) == [ok |-> FALSE, err |-> e, value |-> <<>>]

VARIABLES targets, tree, root, writers, searchers, creating, hist, last
vars == <<targets, tree, root, writers, searchers, creating, hist, last>>

\* ------------------------------------------------------------- FsStorage
NameRank(n) == CHOOSE i \in 1..Len(NameOrder) : NameOrder[i] = n

RECURSIVE SetToSeq(_)
SetToSeq(S) ==
    IF S = {} THEN <<>>
    ELSE LET x == CHOOSE y \in S : \A z \in S : NameRank(y) >= NameRank(z)
         IN <<x>> \o SetToSeq(S \ {x})

RECURSIVE InsertByName(_, _)
InsertByName(m, sorted) ==
    IF sorted = <<>> THEN <<m>>
    ELSE IF NameRank(m.index_name) < NameRank(Head(sorted).index_name)
         THEN <<m>> \o sorted
         ELSE <<Head(sorted)>> \o InsertByName(m, Tail(sorted))

RECURSIVE SortByName(_)
SortByName(ms) ==
    IF ms = <<>> THEN <<>>
    ELSE InsertByName(Head(ms), SortByName(Tail(ms)))

\* FsStorage::list: every directory entry must hold a meta.json; the
\* collected metadata is sorted by index_name.
list(r) ==
    LET dirs == {n \in Names : r[n].exists}
        entries == SetToSeq(dirs)
    IN IF \E n \in dirs : ~r[n].meta.present
       THEN Err("Corrupted")
       ELSE Ok(SortByName([i \in 1..Len(entries) |-> r[entries[i]].meta]))

\* IndexStorage::get_metadata
get_metadata(r, name) ==
    LET l == list(r)
    IN IF ~l.ok THEN Err(l.err)
       ELSE IF \E i \in 1..Len(l.value) : l.value[i].index_name = name
            THEN Ok(r[name].meta)
            ELSE Err("NotFound")

\* FsStorage::create: existence check, create_dir_all of the index root,
\* target check, meta.json, index directory with an empty index.
create(r, tg, name, target) ==
    IF r[name].exists
    THEN [res |-> Err("AlreadyExists"), root |-> r]
    ELSE LET made == [r EXCEPT ![name] = [AbsentDir EXCEPT !.exists = TRUE]]
         IN IF ~tg[target]
            THEN [res |-> Err("TargetMissing"), root |-> made]
            ELSE [res |-> Ok(<<>>),
                  root |-> [made EXCEPT ![name].meta =
                                            IndexStorageMetadata(name, target),
                                        ![name].index = TRUE]]

\* FsStorage::open
open(r, name) ==
    IF ~r[name].index THEN Err("NotFound") ELSE Ok(name)

\* FsStorage::remove
remove(r, name) ==
    IF r[name].exists
    THEN [res |-> Ok(<<>>), root |-> [r EXCEPT ![name] = AbsentDir]]
    ELSE [res |-> Err("NotFound"), root |-> r]

\* reset as it would be if it recreated the index directory only and
\* left file_index_snapshot.json in place
reset_KeepsSnapshot(r, tg, name) ==
    LET m == get_metadata(r, name)
    IN IF ~m.ok THEN [res |-> Err(m.err), root |-> r, removed |-> FALSE]
       ELSE LET cr == create(remove(r, name).root, tg, m.value.index_name,
                             m.value.target_path)
            IN [res |-> cr.res,
                root |-> [cr.root EXCEPT ![name].snapshot = r[name].snapshot],
                removed |-> TRUE]

\* IndexStorage::reset
reset(r, tg, name) ==
    LET m == get_metadata(r, name)
    IN IF ~m.ok THEN [res |-> Err(m.err), root |-> r, removed |-> FALSE]
       ELSE LET rm == remove(r, name)
            IN IF ~rm.res.ok
               THEN [res |-> rm.res, root |-> rm.root, removed |-> FALSE]
               ELSE LET cr == create(rm.root, tg, m.value.index_name,
                                     m.value.target_path)
                    IN [res |-> cr.res, root |-> cr.root, removed |-> TRUE]

\* FsStorage::read_file_index_metadata
read_file_index_metadata(r, name) ==
    LET m == get_metadata(r, name)
    IN IF ~m.ok THEN Err(m.err)
       ELSE IF r[name].snapshot.kind = "absent" THEN Ok(<<>>)
       ELSE IF r[name].snapshot.kind = "corrupt" THEN Err("SnapshotParse")
       ELSE Ok(r[name].snapshot.records)

\* save_file_index_metadata as it would be if the snapshot file were
\* shared by all the indexes of the root
save_file_index_metadata_Shared(r, name, metadata) ==
    LET m == get_metadata(r, name)
    IN IF ~m.ok THEN {[res |-> Err(m.err), root |-> r]}
       ELSE {[res |-> Ok(<<>>),
              root |-> [n \in Names |->
                          IF r[n].exists
                          THEN [r[n] EXCEPT !.snapshot = SnapshotOf(metadata)]
                          ELSE r[n]]]}

\* FsStorage::save_file_index_metadata: the possible outcomes of the call.
\* std::fs::write truncates the file and then writes the JSON; a failure
\* leaves the file as it was (open failed) or truncated (write failed).
save_file_index_metadata(r, name, metadata) ==
    LET m == get_metadata(r, name)
    IN IF ~m.ok THEN {[res |-> Err(m.err), root |-> r]}
       ELSE {[res |-> Ok(<<>>),
              root |-> [r EXCEPT ![name].snapshot = SnapshotOf(metadata)]],
             [res |-> Err("IO"), root |-> r],
             [res |-> Err("IO"),
              root |-> [r EXCEPT ![name].snapshot = CorruptSnapshot]]}

\* ---------------------------------------------------------------- change
PathsOf(xs) == {xs[i].path : i \in 1..Len(xs)}

\* diff as it would be if it compared the sizes only
diff_IgnoresModifiedTime(previous, current) ==
    LET previous_set == PathsOf(previous)
        prev_file(p) ==
            previous[CHOOSE i \in 1..Len(previous) :
                        /\ previous[i].path = p
                        /\ \A j \in 1..(i - 1) : previous[j].path # p]
        IsAdded(file) == file.path \notin previous_set
        IsModified(file) ==
            /\ file.path \in previous_set
            /\ file.size # prev_file(file.path).size
        IsRemoved(file) ==
            ~ \E i \in 1..Len(current) : current[i].path = file.path
    IN [added |-> SelectSeq(current, IsAdded),
        modified |-> SelectSeq(current, IsModified),
        removed |-> SelectSeq(previous, IsRemoved)]

\* diff as it would be if a previous record counted as removed whenever
\* current does not hold that very record
diff_RemovedByRecord(previous, current) ==
    LET previous_set == PathsOf(previous)
        prev_file(p) ==
            previous[CHOOSE i \in 1..Len(previous) :
                        /\ previous[i].path = p
                        /\ \A j \in 1..(i - 1) : previous[j].path # p]
        IsAdded(file) == file.path \notin previous_set
        IsModified(file) ==
            /\ file.path \in previous_set
            /\ \/ file.size # prev_file(file.path).size
               \/ file.modified_time # prev_file(file.path).modified_time
        IsRemoved(file) ==
            ~ \E i \in 1..Len(current) : current[i] = file
    IN [added |-> SelectSeq(current, IsAdded),
        modified |-> SelectSeq(current, IsModified),
        removed |-> SelectSeq(previous, IsRemoved)]

\* change::diff_file_index_metadata
diff_file_index_metadata(previous, current) ==
    LET previous_set == PathsOf(previous)
        prev_file(p) ==
            previous[CHOOSE i \in 1..Len(previous) :
                        /\ previous[i].path = p
                        /\ \A j \in 1..(i - 1) : previous[j].path # p]
        IsAdded(file) == file.path \notin previous_set
        IsModified(file) ==
            /\ file.path \in previous_set
            /\ \/ file.size # prev_file(file.path).size
               \/ file.modified_time # prev_file(file.path).modified_time
        IsRemoved(file) ==
            ~ \E i \in 1..Len(current) : current[i].path = file.path
    IN [added |-> SelectSeq(current, IsAdded),
        modified |-> SelectSeq(current, IsModified),
        removed |-> SelectSeq(previous, IsRemoved)]

Perms(S) ==
    {xs \in [1..Cardinality(S) -> S] :
        \A i, j \in 1..Cardinality(S) : i # j => xs[i] # xs[j]}

\* change::scan: one record per regular file under the target, in the
\* order in which the parallel walker happened to deliver them
scan(tg, tr, target) ==
    IF ~tg[target] THEN {<<>>}
    ELSE Perms({FileIndexMetadata(p, tr[p]) :
                   p \in {q \in Paths : PathDir(q) = target /\ tr[q] # NoFile}})

\* ------------------------------------------------- change: binary codec
\* A String is its UTF-8 bytes, a blob (Vec<u8>) a sequence of bytes, a
\* u64 register its eight bytes, most significant first.
MAGIC == <<66, 84, 76, 88>>
VERSION == 1
HEADER_SIZE == 20
u16_MAX == 65535

xor_u8(a, b) ==
    LET bit(k) == ((a \div k) + (b \div k)) % 2
    IN bit(1) + 2 * bit(2) + 4 * bit(4) + 8 * bit(8) + 16 * bit(16)
         + 32 * bit(32) + 64 * bit(64) + 128 * bit(128)

XorTable == [a \in 0..255 |-> [b \in 0..255 |-> xor_u8(a, b)]]

xor_u64(p, q) ==
    <<XorTable[p[1]][q[1]], XorTable[p[2]][q[2]], XorTable[p[3]][q[3]],
      XorTable[p[4]][q[4]], XorTable[p[5]][q[5]], XorTable[p[6]][q[6]],
      XorTable[p[7]][q[7]], XorTable[p[8]][q[8]]>>

shl1_u64(p) ==
    LET sh(k, next) == ((p[k] * 2) % 256) + (next \div 128)
    IN <<sh(1, p[2]), sh(2, p[3]), sh(3, p[4]), sh(4, p[5]), sh(5, p[6]),
         sh(6, p[7]), sh(7, p[8]), sh(8, 0)>>

\* crc::CRC_64_ECMA_182: width 64, poly 0x42f0e1eba9ea3693, init 0, not
\* reflected, xorout 0
CRC_64_ECMA_182 == <<66, 240, 225, 235, 169, 234, 54, 147>>

RECURSIVE crc_bits(_, _)
crc_bits(reg, n) ==
    IF n = 0 THEN reg
    ELSE crc_bits(IF reg[1] >= 128
                  THEN xor_u64(shl1_u64(reg), CRC_64_ECMA_182)
                  ELSE shl1_u64(reg), n - 1)

\* the byte-wise lookup table of the Crc
CrcTable == [i \in 0..255 |-> crc_bits(<<i, 0, 0, 0, 0, 0, 0, 0>>, 8)]

crc_byte(crc, byte) ==
    xor_u64(<<crc[2], crc[3], crc[4], crc[5], crc[6], crc[7], crc[8], 0>>,
            CrcTable[XorTable[crc[1]][byte]])

\* Digest::update over bytes[lo..hi], left to right; the register is
\* brought to its value before the next half is entered
RECURSIVE crc_update(_, _, _, _)
crc_update(crc, bytes, lo, hi) ==
    IF Len(crc) # 8 \/ lo > hi THEN crc
    ELSE IF lo = hi THEN crc_byte(crc, bytes[lo])
    ELSE LET mid == (lo + hi) \div 2
         IN crc_update(crc_update(crc, bytes, lo, mid), bytes, mid + 1, hi)

\* checksum as it would be if it covered the 12 header bytes only
checksum_HeaderOnly(bytes) ==
    crc_update(<<0, 0, 0, 0, 0, 0, 0, 0>>, bytes, 1, 12)

\* CRC64_ECMA.checksum(bytes) / digest.update(bytes); digest.finalize(),
\* written as a big-endian u64
checksum(bytes) ==
    crc_update(<<0, 0, 0, 0, 0, 0, 0, 0>>, bytes, 1, Len(bytes))

\* write_u64::<BigEndian> / write_u32::<BigEndian> of a value below 2^31
u32_be(n) ==
    <<(n \div 16777216) % 256, (n \div 65536) % 256, (n \div 256) % 256,
      n % 256>>
u64_be(n) == <<0, 0, 0, 0>> \o u32_be(n)

\* write_u16 as it would be if it wrote the low byte first
u16_le(n) == <<n % 256, (n \div 256) % 256>>

\* write_u16::<BigEndian>(n as u16)
u16_be(n) == <<(n \div 256) % 256, n % 256>>

\* u64::from_be_bytes / read_u32::<BigEndian>.  The model counts with
\* values below 2^24; a larger value read from the bytes is given as 2^24.
from_be_bytes(bs) ==
    LET n == Len(bs)
    IN IF \E i \in 1..(n - 3) : bs[i] # 0 THEN 16777216
       ELSE bs[n - 2] * 65536 + bs[n - 1] * 256 + bs[n]

\* the entry loop of encode as it would be if it refused a path of
\* u16::MAX bytes too
RECURSIVE encode_entries_Ge(_)
encode_entries_Ge(records) ==
    IF records = <<>> THEN Ok(<<>>)
    ELSE LET record == Head(records)
             path_bytes == record.path
         IN IF Len(path_bytes) >= u16_MAX THEN Err("PathTooLong")
            ELSE LET rest == encode_entries_Ge(Tail(records))
                 IN IF ~rest.ok THEN rest
                    ELSE Ok(u64_be(record.size)
                              \o u64_be(record.modified_time)
                              \o u16_be(Len(path_bytes) % 65536)
                              \o path_bytes \o rest.value)

\* encode, the loop over the records: size, modified_time, path_len, path
RECURSIVE encode_entries(_)
encode_entries(records) ==
    IF records = <<>> THEN Ok(<<>>)
    ELSE LET record == Head(records)
             path_bytes == record.path
         IN IF Len(path_bytes) > u16_MAX THEN Err("PathTooLong")
            ELSE LET rest == encode_entries(Tail(records))
                 IN IF ~rest.ok THEN rest
                    ELSE Ok(u64_be(record.size)
                              \o u64_be(record.modified_time)
                              \o u16_be(Len(path_bytes) % 65536)
                              \o path_bytes \o rest.value)

\* change::encode
encode(records) ==
    LET entries == encode_entries(records)
    IN IF ~entries.ok THEN entries
       ELSE LET writer == MAGIC \o u32_be(VERSION) \o u32_be(Len(records))
                              \o entries.value
            IN Ok(writer \o checksum(writer))

\* std::str::from_utf8: every byte that is not a continuation byte starts
\* a well-formed sequence, and every continuation byte belongs to one
from_utf8(bs) ==
    LET n == Len(bs)
        cont(i) == i <= n /\ bs[i] >= 128 /\ bs[i] <= 191
        width(b) == IF b <= 127 THEN 1
                    ELSE IF b >= 194 /\ b <= 223 THEN 2
                    ELSE IF b >= 224 /\ b <= 239 THEN 3
                    ELSE IF b >= 240 /\ b <= 244 THEN 4
                    ELSE 0
        second(b, c) == IF b = 224 THEN c >= 160
                        ELSE IF b = 237 THEN c <= 159
                        ELSE IF b = 240 THEN c >= 144
                        ELSE IF b = 244 THEN c <= 143
                        ELSE TRUE
        starts(i) == /\ width(bs[i]) > 0
                     /\ \A k \in 1..(width(bs[i]) - 1) : cont(i + k)
                     /\ width(bs[i]) > 1 => second(bs[i], bs[i + 1])
        covered(i) == \E k \in 1..3 :
                        /\ i - k >= 1 /\ ~cont(i - k) /\ width(bs[i - k]) > k
                        /\ \A j \in 1..(k - 1) : cont(i - j)
    IN \A i \in 1..n : IF cont(i) THEN covered(i) ELSE starts(i)

\* decode, the loop over the entries of remaining_bytes
RECURSIVE decode_entries(_, _, _, _)
decode_entries(remaining_bytes, offset, num_entries, records) ==
    IF num_entries = 0 THEN Ok(records)
    ELSE IF offset + 18 > Len(remaining_bytes) THEN Err("Truncated")
    ELSE LET size == from_be_bytes(SubSeq(remaining_bytes,
                                          offset + 1, offset + 8))
             modified_time == from_be_bytes(SubSeq(remaining_bytes,
                                                   offset + 9, offset + 16))
             path_len == remaining_bytes[offset + 17] * 256
                            + remaining_bytes[offset + 18]
             start == offset + 18
         IN IF start + path_len > Len(remaining_bytes)
            THEN Err("Truncated")
            ELSE LET path == SubSeq(remaining_bytes,
                                    start + 1, start + path_len)
                 IN IF ~from_utf8(path) THEN Err("InvalidUtf8")
                    ELSE decode_entries(remaining_bytes, start + path_len,
                            num_entries - 1,
                            Append(records,
                                   [path |-> path, size |-> size,
                                    modified_time |-> modified_time]))

\* decode as it would be if it verified the checksum before the header
decode_ChecksumFirst(bytes) ==
    IF Len(bytes) < HEADER_SIZE THEN Err("TooShort")
    ELSE LET data_end == Len(bytes) - 8
         IN IF SubSeq(bytes, data_end + 1, Len(bytes))
                    # checksum(SubSeq(bytes, 1, data_end))
            THEN Err("ChecksumMismatch")
            ELSE IF SubSeq(bytes, 1, 4) # MAGIC THEN Err("BadMagic")
            ELSE IF from_be_bytes(SubSeq(bytes, 5, 8)) # VERSION
                 THEN Err("UnsupportedVersion")
            ELSE decode_entries(SubSeq(bytes, 13, data_end), 0,
                                from_be_bytes(SubSeq(bytes, 9, 12)), <<>>)

\* change::decode
decode(bytes) ==
    IF Len(bytes) < HEADER_SIZE THEN Err("TooShort")
    ELSE IF SubSeq(bytes, 1, 4) # MAGIC THEN Err("BadMagic")
    ELSE IF from_be_bytes(SubSeq(bytes, 5, 8)) # VERSION
         THEN Err("UnsupportedVersion")
    ELSE LET num_entries == from_be_bytes(SubSeq(bytes, 9, 12))
             data_end == Len(bytes) - 8
             stored_checksum == SubSeq(bytes, data_end + 1, Len(bytes))
             calculated_checksum == checksum(SubSeq(bytes, 1, data_end))
         IN IF stored_checksum # calculated_checksum
            THEN Err("ChecksumMismatch")
            ELSE decode_entries(SubSeq(bytes, 13, data_end), 0,
                                num_entries, <<>>)

\* ---------------------------------------------------------------- schema
\* std::fs::read_to_string: the content of a readable file (identified by
\* the file's state), an error for a file that is absent or unreadable
read_to_string(tr, path) ==
    IF tr[path] \in FileStats THEN Ok(tr[path]) ELSE Err("IO")

\* CodeIndexDocument::from_path.  read_to_string(path).unwrap_or_default()
\* turns a failed read into the empty string, the content NoFile stands for.
from_path(tr, path) ==
    LET content == read_to_string(tr, path)
    IN [path |-> path,
        content |-> IF content.ok THEN content.value ELSE NoFile]

\* ------------------------------------------------- tantivy::IndexWriter
DeleteOp(path) == [kind |-> "delete_term", path |-> path, content |-> NoFile]
AddOp(doc) == [kind |-> "add_document", path |-> doc.path, content |-> doc.content]

\* Term::from_field_text(path, p) on the untokenized (STRING) path field:
\* every document whose path is exactly p
delete_term(docs, path) ==
    [d \in Docs |-> IF d.path = path THEN 0 ELSE docs[d]]

add_document(docs, op) ==
    LET d == [path |-> op.path, content |-> op.content]
    IN [docs EXCEPT ![d] = @ + 1]

RECURSIVE ApplyOps(_, _)
ApplyOps(docs, ops) ==
    IF ops = <<>> THEN docs
    ELSE ApplyOps(IF Head(ops).kind = "delete_term"
                  THEN delete_term(docs, Head(ops).path)
                  ELSE add_document(docs, Head(ops)),
                  Tail(ops))

CopiesOfPath(docs, p) ==
    LET ds == {d \in Docs : d.path = p}
        RECURSIVE Sum(_)
        Sum(S) == IF S = {} THEN 0
                  ELSE LET x == CHOOSE y \in S : TRUE
                       IN docs[x] + Sum(S \ {x})
    IN Sum(ds)

\* ------------------------------------------------------------- handles
\* IndexWriter { storage, index_metadata, writer }: pc is the position of
\* the current index() call, pending the operations queued in the tantivy
\* writer and not yet committed, stale whether its directory was removed
NoWriter ==
    [alive |-> FALSE, name |-> "", target |-> "", stale |-> FALSE,
     pc |-> "idle", pending |-> <<>>, manifest |-> <<>>]

\* IndexSearcher { index, reader }: view is the generation loaded by the
\* reader; atOpen, commits and gens record what was committed when it was
\* opened, whether a commit happened since, and the generations committed
\* from its opening on
NoSearcher ==
    [alive |-> FALSE, name |-> "", stale |-> FALSE, view |-> NoDocs,
     atOpen |-> NoDocs, commits |-> FALSE, gens |-> {}]

\* a call of FsStorage::create in progress: pc is its position (none: not
\* called, checked: the name was found absent, made: the directory is
\* there, meta: meta.json is written, done: returned res)
NoCall == [pc |-> "none", name |-> "", target |-> "", res |-> Ok(<<>>)]

Event(op, name, h, step, res) ==
    [op |-> op, name |-> name, h |-> h, step |-> step, res |-> res,
     flag |-> FALSE]

Init ==
    /\ targets = [t \in Targets |-> TRUE]
    /\ tree = [p \in Paths |-> NoFile]
    /\ root = [n \in Names |-> AbsentDir]
    /\ writers = [w \in WriterIds |-> NoWriter]
    /\ searchers = [s \in SearcherIds |-> NoSearcher]
    /\ creating = [c \in CallIds |-> NoCall]
    /\ hist = [n \in Names |-> FALSE]
    /\ last = Event("init", "", "", "", Ok(<<>>))

Running == \E w \in WriterIds : writers[w].pc # "idle"

\* handles on the directory of name lose it when the directory is removed
Orphan(hs, name) ==
    [h \in DOMAIN hs |->
        IF hs[h].alive /\ hs[h].name = name
        THEN [hs[h] EXCEPT !.stale = TRUE] ELSE hs[h]]

\* ------------------------------------------------- the target directories
\* a file is created or rewritten (its size / mtime change)
WriteFile(p, st) ==
    /\ targets[PathDir(p)] /\ ~Running
    /\ st \in StatsOf(p)
    /\ tree[p] # st
    /\ tree' = [tree EXCEPT ![p] = st]
    /\ last' = Event("env", "", "", "", Ok(<<>>))
    /\ UNCHANGED <<creating, targets, root, writers, searchers, hist>>

DeleteFile(p) ==
    /\ tree[p] # NoFile /\ ~Running
    /\ tree' = [tree EXCEPT ![p] = NoFile]
    /\ last' = Event("env", "", "", "", Ok(<<>>))
    /\ UNCHANGED <<creating, targets, root, writers, searchers, hist>>

RemoveTarget(t) ==
    /\ targets[t] /\ ~Running
    /\ targets' = [targets EXCEPT ![t] = FALSE]
    /\ tree' = [p \in Paths |-> IF PathDir(p) = t THEN NoFile ELSE tree[p]]
    /\ last' = Event("env", "", "", "", Ok(<<>>))
    /\ UNCHANGED <<creating, root, writers, searchers, hist>>

MakeTarget(t) ==
    /\ ~targets[t] /\ ~Running
    /\ targets' = [targets EXCEPT ![t] = TRUE]
    /\ last' = Event("env", "", "", "", Ok(<<>>))
    /\ UNCHANGED <<creating, tree, root, writers, searchers, hist>>

\* a file loses its read permission: its size and mtime stay and can be
\* taken by the scan, its content cannot be read
MakeUnreadable(p) ==
    /\ tree[p] \in FileStats /\ ~Running
    /\ tree' = [tree EXCEPT ![p] =
                    [size |-> @.size, modified_time |-> @.modified_time,
                     unreadable |-> TRUE]]
    /\ last' = Event("env", "", "", "", Ok(<<>>))
    /\ UNCHANGED <<creating, targets, root, writers, searchers, hist>>

\* ----------------------------------------------------------- IndexCatalog
\* IndexCatalog::create
Create(name, target) ==
    LET out == create(root, targets, name, target)
    IN /\ root' = out.root
       /\ hist' = IF out.res.ok THEN [hist EXCEPT ![name] = FALSE] ELSE hist
       /\ last' = Event("create", name, target, "", out.res)
       /\ UNCHANGED <<creating, targets, tree, writers, searchers>>

\* FsStorage::create step by step, as it runs when several callers are in
\* it at once.  First step: the existence check of the index directory.
CreateCheck(c, name, target) ==
    /\ creating[c].pc = "none"
    /\ LET res == IF root[name].exists THEN Err("AlreadyExists")
                  ELSE Ok(<<>>)
       IN /\ creating' = [creating EXCEPT ![c] =
                 [pc |-> IF res.ok THEN "checked" ELSE "done",
                  name |-> name, target |-> target, res |-> res]]
          /\ last' = Event("create", name, c, "check", res)
    /\ UNCHANGED <<targets, tree, root, writers, searchers, hist>>

\* create_dir_all of the index directory, which succeeds on a directory
\* that is already there, and the check of the target
CreateMkdir(c) ==
    LET call == creating[c]
        res == IF targets[call.target] THEN Ok(<<>>) ELSE Err("TargetMissing")
    IN /\ call.pc = "checked"
       /\ root' = [root EXCEPT ![call.name].exists = TRUE]
       /\ creating' = [creating EXCEPT
                          ![c].pc = IF res.ok THEN "made" ELSE "done",
                          ![c].res = res]
       /\ last' = Event("create", call.name, c, "mkdir", res)
       /\ UNCHANGED <<targets, tree, writers, searchers, hist>>

\* std::fs::write of meta.json, over whatever the file holds
CreateWriteMeta(c) ==
    LET call == creating[c]
    IN /\ call.pc = "made"
       /\ root' = [root EXCEPT ![call.name].meta =
                      IndexStorageMetadata(call.name, call.target)]
       /\ creating' = [creating EXCEPT ![c].pc = "meta"]
       /\ last' = Event("create", call.name, c, "meta", Ok(<<>>))
       /\ UNCHANGED <<targets, tree, writers, searchers, hist>>

\* create_dir_all of index/ and Index::create_in_dir, which refuses a
\* directory that holds an index already; create returns
CreateIndex(c) ==
    LET call == creating[c]
        res == IF root[call.name].index THEN Err("CreateIndex") ELSE Ok(<<>>)
    IN /\ call.pc = "meta"
       /\ root' = [root EXCEPT ![call.name].index = TRUE]
       /\ creating' = [creating EXCEPT ![c].pc = "done", ![c].res = res]
       /\ last' = Event("create", call.name, c, "index", res)
       /\ UNCHANGED <<targets, tree, writers, searchers, hist>>

\* IndexCatalog::remove
Remove(name) ==
    LET out == remove(root, name)
    IN /\ root' = out.root
       /\ writers' = IF out.res.ok THEN Orphan(writers, name) ELSE writers
       /\ searchers' = IF out.res.ok THEN Orphan(searchers, name)
                       ELSE searchers
       /\ hist' = IF out.res.ok THEN [hist EXCEPT ![name] = FALSE] ELSE hist
       /\ last' = Event("remove", name, "", "", out.res)
       /\ UNCHANGED <<creating, targets, tree>>

\* IndexCatalog::reset
Reset(name) ==
    LET out == reset(root, targets, name)
    IN /\ root' = out.root
       /\ writers' = IF out.removed THEN Orphan(writers, name) ELSE writers
       /\ searchers' = IF out.removed THEN Orphan(searchers, name)
                       ELSE searchers
       /\ hist' = IF out.removed THEN [hist EXCEPT ![name] = FALSE] ELSE hist
       /\ last' = [Event("reset", name, "", "", out.res)
                      EXCEPT !.flag = root[name].docs # NoDocs]
       /\ UNCHANGED <<creating, targets, tree>>

\* IndexCatalog::list
List ==
    /\ last' = Event("list", "", "", "", list(root))
    /\ UNCHANGED <<creating, targets, tree, root, writers, searchers, hist>>

\* IndexWriter::new: index.writer() takes the directory's writer lock
\* without blocking and fails when it is held
IndexWriter_new(r, name) ==
    IF r[name].locked THEN Err("WriterBusy") ELSE Ok(name)

\* IndexCatalog::get_writer
get_writer(r, name) ==
    LET m == get_metadata(r, name)
    IN IF ~m.ok THEN Err(m.err)
       ELSE IF ~open(r, name).ok THEN Err(open(r, name).err)
       ELSE IF ~IndexWriter_new(r, name).ok
            THEN Err(IndexWriter_new(r, name).err)
       ELSE Ok(m.value)

GetWriter(w, name) ==
    LET out == get_writer(root, name)
    IN /\ ~writers[w].alive
       /\ last' = Event("get_writer", name, w, "", out)
       /\ IF out.ok
          THEN /\ writers' = [writers EXCEPT ![w] =
                    [NoWriter EXCEPT !.alive = TRUE, !.name = name,
                                     !.target = out.value.target_path]]
               /\ root' = [root EXCEPT ![name].locked = TRUE]
          ELSE UNCHANGED <<creating, writers, root>>
       /\ UNCHANGED <<creating, targets, tree, searchers, hist>>

\* the IndexWriter is dropped at the end of its caller's scope: queued
\* operations are discarded and the lock is released
DropWriter(w) ==
    LET wr == writers[w]
    IN /\ wr.alive /\ wr.pc = "idle"
       /\ writers' = [writers EXCEPT ![w] = NoWriter]
       /\ root' = IF wr.stale THEN root
                  ELSE [root EXCEPT ![wr.name].locked = FALSE]
       /\ last' = Event("drop_writer", wr.name, w, "", Ok(<<>>))
       /\ UNCHANGED <<creating, targets, tree, searchers, hist>>

\* the process dies in the middle of index(): the writer goes away with
\* its queued operations, the lock is released, files stay as they are
Abort(w) ==
    LET wr == writers[w]
    IN /\ wr.alive /\ wr.pc # "idle"
       /\ writers' = [writers EXCEPT ![w] = NoWriter]
       /\ root' = IF wr.stale THEN root
                  ELSE [root EXCEPT ![wr.name].locked = FALSE]
       /\ hist' = IF wr.stale THEN hist ELSE [hist EXCEPT ![wr.name] = TRUE]
       /\ last' = Event("abort", wr.name, w, wr.pc, Ok(<<>>))
       /\ UNCHANGED <<creating, targets, tree, searchers>>

\* ------------------------------------------------- IndexWriter::index
\* index_ops as it would be if every scanned file were added again,
\* whether the differ reports it or not
index_ops_AddsEveryFile(file_index_snapshot, manifest, tr) ==
    LET delta == diff_file_index_metadata(file_index_snapshot, manifest)
        removed == delta.removed
        files_to_update == manifest
    IN [deletes |-> [i \in 1..Len(removed) |-> DeleteOp(removed[i].path)],
        adds |-> [i \in 1..Len(files_to_update) |->
                     AddOp(from_path(tr, files_to_update[i].path))]]

\* the operations index() issues for a loaded snapshot and a scan:
\* delete_term for every removed record, then add_document for every
\* added and every modified record, in that order
index_ops(file_index_snapshot, manifest, tr) ==
    LET delta == diff_file_index_metadata(file_index_snapshot, manifest)
        removed == delta.removed
        files_to_update == delta.added \o delta.modified
    IN [deletes |-> [i \in 1..Len(removed) |-> DeleteOp(removed[i].path)],
        adds |-> [i \in 1..Len(files_to_update) |->
                     AddOp(from_path(tr, files_to_update[i].path))]]

\* index(), first part: the snapshot cannot be loaded; index() returns Err
IndexLoadErr(w) ==
    LET wr == writers[w]
        snap == read_file_index_metadata(root, wr.name)
    IN /\ wr.alive /\ ~wr.stale /\ wr.pc = "idle"
       /\ ~snap.ok
       /\ hist' = [hist EXCEPT ![wr.name] = TRUE]
       /\ last' = Event("index", wr.name, w, "load", snap)
       /\ UNCHANGED <<creating, targets, tree, root, writers, searchers>>

\* IndexQueue as it would be if the new snapshot were persisted as soon as
\* the tree is scanned, before the commit
IndexQueue_SavesBeforeCommit(w) ==
    LET wr == writers[w]
        snap == read_file_index_metadata(root, wr.name)
    IN /\ wr.alive /\ ~wr.stale /\ wr.pc = "idle"
       /\ snap.ok
       /\ \E manifest \in scan(targets, tree, wr.target) :
            LET ops == index_ops(snap.value, manifest, tree)
                queued == wr.pending \o ops.deletes \o ops.adds
            IN /\ Len(queued) <= MaxPending
               /\ writers' = [writers EXCEPT ![w].pc = "queued",
                                             ![w].pending = queued,
                                             ![w].manifest = manifest]
               /\ root' = [root EXCEPT ![wr.name].snapshot =
                                            SnapshotOf(manifest)]
       /\ last' = Event("index", wr.name, w, "queue", Ok(<<>>))
       /\ UNCHANGED <<creating, targets, tree, searchers, hist>>

\* IndexQueue as it would be if the documents were added before the
\* removed paths are deleted
IndexQueue_AddsFirst(w) ==
    LET wr == writers[w]
        snap == read_file_index_metadata(root, wr.name)
    IN /\ wr.alive /\ ~wr.stale /\ wr.pc = "idle"
       /\ snap.ok
       /\ \E manifest \in scan(targets, tree, wr.target) :
            LET ops == index_ops(snap.value, manifest, tree)
                queued == wr.pending \o ops.adds \o ops.deletes
            IN /\ Len(queued) <= MaxPending
               /\ writers' = [writers EXCEPT ![w].pc = "queued",
                                             ![w].pending = queued,
                                             ![w].manifest = manifest]
       /\ last' = Event("index", wr.name, w, "queue", Ok(<<>>))
       /\ UNCHANGED <<creating, targets, tree, root, searchers, hist>>

\* index(), first part: snapshot loaded, tree scanned, delta computed, the
\* deletes and all the adds queued in the writer
IndexQueue(w) ==
    LET wr == writers[w]
        snap == read_file_index_metadata(root, wr.name)
    IN /\ wr.alive /\ ~wr.stale /\ wr.pc = "idle"
       /\ snap.ok
       /\ \E manifest \in scan(targets, tree, wr.target) :
            LET ops == index_ops(snap.value, manifest, tree)
                queued == wr.pending \o ops.deletes \o ops.adds
            IN /\ Len(queued) <= MaxPending
               /\ writers' = [writers EXCEPT ![w].pc = "queued",
                                             ![w].pending = queued,
                                             ![w].manifest = manifest]
       /\ last' = Event("index", wr.name, w, "queue", Ok(<<>>))
       /\ UNCHANGED <<creating, targets, tree, root, searchers, hist>>

\* index(), first part: add_document fails on the (k+1)-th file; the
\* operations queued so far stay in the writer and index() returns Err
IndexAddFail(w) ==
    LET wr == writers[w]
        snap == read_file_index_metadata(root, wr.name)
    IN /\ wr.alive /\ ~wr.stale /\ wr.pc = "idle"
       /\ snap.ok
       /\ \E manifest \in scan(targets, tree, wr.target) :
            LET ops == index_ops(snap.value, manifest, tree)
            IN \E k \in 0..(Len(ops.adds) - 1) :
                 LET queued == wr.pending \o ops.deletes
                                  \o SubSeq(ops.adds, 1, k)
                 IN /\ Len(queued) <= MaxPending
                    /\ writers' = [writers EXCEPT ![w].pending = queued]
       /\ hist' = [hist EXCEPT ![wr.name] = TRUE]
       /\ last' = Event("index", wr.name, w, "add", Err("AddDocument"))
       /\ UNCHANGED <<creating, targets, tree, root, searchers>>

\* a commit publishes the generation docs of the index name: the readers
\* open on it can load it from now on
Committed(ss, name, docs) ==
    [s \in DOMAIN ss |->
        IF ss[s].alive /\ ss[s].name = name /\ ~ss[s].stale
        THEN [ss[s] EXCEPT !.commits = TRUE, !.gens = @ \cup {docs}]
        ELSE ss[s]]

\* index(): writer.commit() succeeds and publishes the queued operations
IndexCommitOk(w) ==
    LET wr == writers[w]
        docs == ApplyOps(root[wr.name].docs, wr.pending)
    IN /\ wr.alive /\ ~wr.stale /\ wr.pc = "queued"
       /\ \A p \in Paths : CopiesOfPath(docs, p) <= MaxCopies
       /\ root' = [root EXCEPT ![wr.name].docs = docs]
       /\ writers' = [writers EXCEPT ![w].pc = "committed",
                                     ![w].pending = <<>>]
       /\ searchers' = Committed(searchers, wr.name, docs)
       /\ last' = Event("index", wr.name, w, "commit", Ok(<<>>))
       /\ UNCHANGED <<creating, targets, tree, hist>>

\* IndexCommitFail as it would be if a failing commit had already
\* published the first queued operation
IndexCommitFail_Partial(w) ==
    LET wr == writers[w]
    IN /\ wr.alive /\ ~wr.stale /\ wr.pc = "queued"
       /\ writers' = [writers EXCEPT ![w].pc = "idle"]
       /\ root' = [root EXCEPT ![wr.name].docs =
                      ApplyOps(@, IF wr.pending = <<>> THEN <<>>
                                  ELSE <<Head(wr.pending)>>)]
       /\ hist' = [hist EXCEPT ![wr.name] = TRUE]
       /\ last' = Event("index", wr.name, w, "commit", Err("Commit"))
       /\ UNCHANGED <<creating, targets, tree, searchers>>

\* index(): writer.commit() fails; index() returns Err
IndexCommitFail(w) ==
    LET wr == writers[w]
    IN /\ wr.alive /\ ~wr.stale /\ wr.pc = "queued"
       /\ writers' = [writers EXCEPT ![w].pc = "idle"]
       /\ hist' = [hist EXCEPT ![wr.name] = TRUE]
       /\ last' = Event("index", wr.name, w, "commit", Err("Commit"))
       /\ UNCHANGED <<creating, targets, tree, root, searchers>>

\* index(): save_file_index_metadata(manifest) succeeds; index() returns Ok.
\* The snapshot file is found through the index name, so the call also goes
\* through for a writer whose directory was replaced since it was opened.
IndexSaveOk(w) ==
    LET wr == writers[w]
    IN /\ wr.alive /\ wr.pc = "committed"
       /\ \E out \in save_file_index_metadata(root, wr.name, wr.manifest) :
            /\ out.res.ok
            /\ root' = out.root
            /\ last' = [Event("index", wr.name, w, "save", out.res)
                           EXCEPT !.flag = hist[wr.name]]
       /\ writers' = [writers EXCEPT ![w].pc = "idle", ![w].manifest = <<>>]
       /\ hist' = [hist EXCEPT ![wr.name] = FALSE]
       /\ UNCHANGED <<creating, targets, tree, searchers>>

\* index(): save_file_index_metadata(manifest) fails; index() returns Err
IndexSaveFail(w) ==
    LET wr == writers[w]
    IN /\ wr.alive /\ wr.pc = "committed"
       /\ \E out \in save_file_index_metadata(root, wr.name, wr.manifest) :
            /\ ~out.res.ok
            /\ root' = out.root
            /\ last' = Event("index", wr.name, w, "save", out.res)
       /\ writers' = [writers EXCEPT ![w].pc = "idle", ![w].manifest = <<>>]
       /\ hist' = [hist EXCEPT ![wr.name] = TRUE]
       /\ UNCHANGED <<creating, targets, tree, searchers>>

\* ----------------------------------------------------------- IndexSearcher
\* IndexCatalog::get_searcher / IndexSearcher::new: index.reader() loads
\* the generation committed at that moment
GetSearcher(s, name) ==
    LET ix == open(root, name)
    IN /\ ~searchers[s].alive
       /\ last' = Event("get_searcher", name, s, "", ix)
       /\ searchers' =
            IF ix.ok
            THEN [searchers EXCEPT ![s] =
                    [NoSearcher EXCEPT !.alive = TRUE, !.name = name,
                                       !.view = root[name].docs,
                                       !.atOpen = root[name].docs,
                                       !.gens = {root[name].docs}]]
            ELSE searchers
       /\ UNCHANGED <<creating, targets, tree, root, writers, hist>>

\* the reader's reload policy is the default, OnCommitWithDelay: some time
\* after a commit the reader loads the newly committed generation
Reload(s) ==
    LET sr == searchers[s]
    IN /\ sr.alive /\ ~sr.stale
       /\ sr.view # root[sr.name].docs
       /\ searchers' = [searchers EXCEPT ![s].view = root[sr.name].docs]
       /\ last' = Event("reload", sr.name, s, "", Ok(<<>>))
       /\ UNCHANGED <<creating, targets, tree, root, writers, hist>>

\* search as it would be if it also saw the operations a writer has
\* queued and not yet committed
search_Uncommitted(sr) ==
    LET ws == {w \in WriterIds : writers[w].alive /\ writers[w].name = sr.name}
    IN IF ws = {} THEN Ok(sr.view)
       ELSE Ok(ApplyOps(sr.view, writers[CHOOSE w \in ws : TRUE].pending))

\* IndexSearcher::search: reader.searcher() pins the loaded generation for
\* the whole call; the hits come from that generation
search(sr) == Ok(sr.view)

Search(s) ==
    /\ searchers[s].alive
    /\ last' = Event("search", searchers[s].name, s, "", search(searchers[s]))
    /\ UNCHANGED <<creating, targets, tree, root, writers, searchers, hist>>

DropSearcher(s) ==
    /\ searchers[s].alive
    /\ searchers' = [searchers EXCEPT ![s] = NoSearcher]
    /\ last' = Event("drop_searcher", searchers[s].name, s, "", Ok(<<>>))
    /\ UNCHANGED <<creating, targets, tree, root, writers, hist>>

\* the query strings given to search: the empty string, a term that occurs
\* in the content of x.rs and of no other file, a term that occurs in no
\* file, and a group that is never closed
Queries == {"", "fn", "zzz", "(fn"}

\* parse_query as it would be if it refused the empty string
parse_query_RejectsEmpty(query) ==
    IF query \in {"", "(fn"} THEN Err("QueryParse") ELSE Ok(query)

\* QueryParser::parse_query: a syntax error for the unbalanced group, the
\* query that matches nothing for the empty string, a term query otherwise
parse_query(query) ==
    IF query = "(fn" THEN Err("QueryParse") ELSE Ok(query)

\* searcher.search(&parsed_query, &TopDocs::with_limit(10)): the documents
\* of the pinned generation whose content holds the term (never more than
\* ten in the model); a file read as the empty string holds no term
TopDocs(docs, parsed_query) ==
    [d \in Docs |->
        IF parsed_query = "fn" /\ d.path = "t1/x.rs" /\ d.content # NoFile
        THEN docs[d] ELSE 0]

\* IndexSearcher::search(query): the query is parsed before the index is
\* looked at; the hits are taken from the generation search pins
search_for(sr, query) ==
    LET parsed_query == parse_query(query)
    IN IF ~parsed_query.ok THEN Err(parsed_query.err)
       ELSE Ok(TopDocs(search(sr).value, parsed_query.value))

\* flag: the call before this one was a search on this handle that failed
SearchFor(s, query) ==
    /\ searchers[s].alive
    /\ last' = [Event("search_for", searchers[s].name, s, query,
                      search_for(searchers[s], query))
                   EXCEPT !.flag = /\ last.op = "search_for"
                                   /\ last.h = s
                                   /\ ~last.res.ok]
    /\ UNCHANGED <<creating, targets, tree, root, writers, searchers, hist>>

\* ------------------------------------------------------- specifications
\* the update pipeline of one index when nothing fails
NextNoFailure ==
    \/ Create("a", "t1")
    \/ \E p \in Paths : \E st \in StatsOf(p) : WriteFile(p, st)
    \/ \E p \in Paths : DeleteFile(p)
    \/ GetWriter("w1", "a")
    \/ DropWriter("w1")
    \/ IndexQueue("w1")
    \/ IndexCommitOk("w1")
    \/ IndexSaveOk("w1")

SpecNoFailure == Init /\ [][NextNoFailure]_vars

\* the same pipeline over a tree in which files turn unreadable
NextUnreadable ==
    \/ NextNoFailure
    \/ \E p \in Paths : MakeUnreadable(p)

SpecUnreadable == Init /\ [][NextUnreadable]_vars

\* the update pipeline of one index when the process may die in the
\* middle of index() and the snapshot file may fail to be written
NextCrash ==
    \/ NextNoFailure
    \/ Abort("w1")
    \/ IndexLoadErr("w1")
    \/ IndexSaveFail("w1")

SpecCrash == Init /\ [][NextCrash]_vars

\* the update pipeline of one index with every failure index() can meet
NextUpdate ==
    \/ NextCrash
    \/ IndexAddFail("w1")
    \/ IndexCommitFail("w1")

SpecUpdate == Init /\ [][NextUpdate]_vars

\* two writer handles on one index, with the catalog operations that
\* replace its directory
NextLock ==
    \/ \E t \in Targets : Create("a", t)
    \/ Remove("a")
    \/ Reset("a")
    \/ \E w \in WriterIds : GetWriter(w, "a")
    \/ \E w \in WriterIds : DropWriter(w)

SpecLock == Init /\ [][NextLock]_vars

\* two callers of create for one index name, each with a target of its
\* own choice, running at once
NextCreate ==
    \/ \E c \in CallIds, t \in Targets : CreateCheck(c, "a", t)
    \/ \E c \in CallIds : CreateMkdir(c)
    \/ \E c \in CallIds : CreateWriteMeta(c)
    \/ \E c \in CallIds : CreateIndex(c)

SpecCreate == Init /\ [][NextCreate]_vars

\* the update and reindex handlers of the server running at once on one
\* index: each index() call goes step by step, reset may come in between
NextReindex ==
    \/ Create("a", "t1")
    \/ Reset("a")
    \/ \E st \in StatsOf("t1/x.rs") : WriteFile("t1/x.rs", st)
    \/ DeleteFile("t1/x.rs")
    \/ \E w \in WriterIds : GetWriter(w, "a")
    \/ \E w \in WriterIds : DropWriter(w)
    \/ \E w \in WriterIds : IndexQueue(w)
    \/ \E w \in WriterIds : IndexCommitOk(w)
    \/ \E w \in WriterIds : IndexSaveOk(w)

SpecReindex == Init /\ [][NextReindex]_vars

\* one searcher handle on an index that a writer updates as one file of
\* the tree is created, rewritten and deleted
NextSearch ==
    \/ Create("a", "t1")
    \/ \E st \in StatsOf("t1/x.rs") : WriteFile("t1/x.rs", st)
    \/ DeleteFile("t1/x.rs")
    \/ GetWriter("w1", "a")
    \/ DropWriter("w1")
    \/ IndexQueue("w1")
    \/ IndexCommitOk("w1")
    \/ IndexSaveOk("w1")
    \/ GetSearcher("s1", "a")
    \/ Reload("s1")
    \/ Search("s1")
    \/ DropSearcher("s1")

SpecSearch == Init /\ [][NextSearch]_vars

\* one searcher handle and its queries on an index that is updated and
\* reset as one file of the tree is created, rewritten and deleted
NextQuery ==
    \/ Create("a", "t1")
    \/ Reset("a")
    \/ \E st \in StatsOf("t1/x.rs") : WriteFile("t1/x.rs", st)
    \/ DeleteFile("t1/x.rs")
    \/ GetWriter("w1", "a")
    \/ DropWriter("w1")
    \/ IndexQueue("w1")
    \/ IndexCommitOk("w1")
    \/ IndexSaveOk("w1")
    \/ GetSearcher("s1", "a")
    \/ Reload("s1")
    \/ \E query \in Queries : SearchFor("s1", query)
    \/ DropSearcher("s1")

SpecQuery == Init /\ [][NextQuery]_vars

\* --------------------------------------------------------------- adapters
\* the update handler (server.rs update_index, runner.rs Update): get a
\* writer, run index() to its end, drop the writer.  The result is the set
\* of outcomes the call can have; "IO" marks those in which the disk failed.
update(r, tg, tr, name) ==
    LET gw == get_writer(r, name)
        snap == read_file_index_metadata(r, name)
    IN IF ~gw.ok THEN {[res |-> Err(gw.err), root |-> r]}
       ELSE IF ~snap.ok THEN {[res |-> snap, root |-> r]}
       ELSE UNION {
              LET ops == index_ops(snap.value, manifest, tr)
                  docs == ApplyOps(r[name].docs, ops.deletes \o ops.adds)
                  committed == [r EXCEPT ![name].docs = docs]
              IN save_file_index_metadata(committed, name, manifest)
              : manifest \in scan(tg, tr, gw.value.target_path)}

Update(name) ==
    \E out \in update(root, targets, tree, name) :
        /\ out.res.err # "IO"
        /\ \A p \in Paths : CopiesOfPath(out.root[name].docs, p) <= MaxCopies
        /\ root' = out.root
        /\ last' = Event("update", name, "", "", out.res)
        /\ UNCHANGED <<creating, targets, tree, writers, searchers, hist>>

\* the search handler (server.rs search_index): get a searcher and search
search_index(r, name) ==
    IF ~open(r, name).ok THEN Err(open(r, name).err)
    ELSE search([NoSearcher EXCEPT !.alive = TRUE, !.name = name,
                                   !.view = r[name].docs])

SearchIndex(name) ==
    /\ last' = Event("search_index", name, "", "", search_index(root, name))
    /\ UNCHANGED <<creating, targets, tree, root, writers, searchers, hist>>

\* the operations of the catalog as the adapters call them, each run to
\* its end, over two index names and two target directories
Next ==
    \/ \E n \in Names, t \in Targets : Create(n, t)
    \/ \E n \in Names : Remove(n)
    \/ \E n \in Names : Reset(n)
    \/ List
    \/ \E n \in Names : Update(n)
    \/ \E n \in Names : SearchIndex(n)
    \/ \E p \in Paths : \E st \in StatsOf(p) : WriteFile(p, st)
    \/ \E p \in Paths : DeleteFile(p)
    \/ \E t \in Targets : RemoveTarget(t)
    \/ \E t \in Targets : MakeTarget(t)

Spec == Init /\ [][Next]_vars

\* ------------------------------------------ the pure functions of change
\* everything but the recorded call is as after construction
Idle ==
    /\ targets = [t \in Targets |-> TRUE]
    /\ tree = [p \in Paths |-> NoFile]
    /\ root = [n \in Names |-> AbsentDir]
    /\ writers = [w \in WriterIds |-> NoWriter]
    /\ searchers = [s \in SearcherIds |-> NoSearcher]
    /\ creating = [c \in CallIds |-> NoCall]
    /\ hist = [n \in Names |-> FALSE]

SeqsUpTo(S, n) == UNION {[1..k -> S] : k \in 0..n}

\* the paths of the codec's records, as UTF-8 bytes: "a" and "é" (U+00E9)
CodecPaths == {<<97>>, <<195, 169>>}

\* a size whose bytes differ from one another besides the small ones
CodecStats == FileStats \cup {[size |-> 66051, modified_time |-> 1]}

CodecRecords ==
    {[path |-> p, size |-> st.size, modified_time |-> st.modified_time] :
        p \in CodecPaths, st \in CodecStats}

\* a record whose path is n bytes long
LongRecord(n) ==
    [path |-> [i \in 1..n |-> 97], size |-> 1, modified_time |-> 1]

\* the lists given to encode: every list of up to MaxRecords records, a
\* path of exactly u16::MAX bytes, and paths one byte longer
CodecInputs ==
    SeqsUpTo(CodecRecords, MaxRecords)
        \cup {<<LongRecord(u16_MAX)>>, <<LongRecord(u16_MAX + 1)>>,
              <<[path |-> <<97>>, size |-> 1, modified_time |-> 1],
                LongRecord(u16_MAX + 1)>>}

InitCodec ==
    /\ Idle
    /\ last \in {Event("records", "", [records |-> xs], "", Ok(<<>>)) :
                    xs \in CodecInputs}

\* encode(records)
Encode ==
    /\ last.op = "records"
    /\ last' = Event("encode", "", last.h, "", encode(last.h.records))
    /\ UNCHANGED <<creating, targets, tree, root, writers, searchers, hist>>

\* decode(encode(records))
Decode ==
    /\ last.op = "encode" /\ last.res.ok
    /\ last' = Event("decode", "",
                     [records |-> last.h.records, bytes |-> last.res.value],
                     "roundtrip", decode(last.res.value))
    /\ UNCHANGED <<creating, targets, tree, root, writers, searchers, hist>>

\* the bits a byte is changed by: each single bit, and all of them
Masks == {1, 2, 4, 8, 16, 32, 64, 128, 255}

\* decode of a valid blob in which byte i was replaced by another value
DecodeFlipped(i, mask) ==
    /\ last.op = "encode" /\ last.res.ok
    /\ Len(last.res.value) <= MaxBlob
    /\ i \in 1..Len(last.res.value)
    /\ LET bytes == [last.res.value EXCEPT ![i] = xor_u8(@, mask)]
       IN last' = Event("decode", "",
                        [records |-> last.h.records, bytes |-> bytes,
                         valid |-> last.res.value],
                        "flip", decode(bytes))
    /\ UNCHANGED <<creating, targets, tree, root, writers, searchers, hist>>

\* decode of a valid blob damaged in its header and trailer: cut to fewer
\* than HEADER_SIZE bytes (cut < HEADER_SIZE), a byte of the magic
\* (m in 1..4), of the version (v in 5..8) and the last byte of the
\* checksum (c) changed; 0 / FALSE leave the part as it is
DecodeDamaged(cut, m, v, c) ==
    /\ last.op = "encode" /\ last.res.ok
    /\ Len(last.res.value) <= MaxBlob
    /\ LET valid == last.res.value
           n == IF cut < HEADER_SIZE THEN cut ELSE Len(valid)
           damaged(i) == \/ i = m
                         \/ i = v
                         \/ c /\ i = Len(valid)
           bytes == [i \in 1..n |->
                        IF damaged(i) THEN xor_u8(valid[i], 255)
                        ELSE valid[i]]
       IN last' = Event("decode", "",
                        [records |-> last.h.records, bytes |-> bytes,
                         valid |-> valid],
                        "header", decode(bytes))
    /\ UNCHANGED <<creating, targets, tree, root, writers, searchers, hist>>

NextCodec ==
    \/ Encode
    \/ Decode
    \/ \E i \in 1..MaxBlob, mask \in Masks : DecodeFlipped(i, mask)
    \/ \E cut \in {0, 12, 19, HEADER_SIZE}, m \in {0, 1, 4}, v \in {0, 5, 8},
          c \in BOOLEAN : DecodeDamaged(cut, m, v, c)

SpecCodec == InitCodec /\ [][NextCodec]_vars

\* the snapshot lists given to diff: every list of up to MaxRecords
\* records over the model's paths and file states, duplicate paths included
DifferInputs ==
    SeqsUpTo({FileIndexMetadata(p, st) : p \in Paths, st \in FileStats},
             MaxRecords)

InitDiffer ==
    /\ Idle
    /\ last \in {Event("lists", "", [previous |-> p, current |-> c], "",
                       Ok(<<>>)) : p \in DifferInputs, c \in DifferInputs}

\* diff_file_index_metadata(previous, current)
Diff ==
    /\ last.op = "lists"
    /\ last' = Event("diff", "", last.h, "",
                     Ok(diff_file_index_metadata(last.h.previous,
                                                 last.h.current)))
    /\ UNCHANGED <<creating, targets, tree, root, writers, searchers, hist>>

NextDiffer == Diff

SpecDiffer == InitDiffer /\ [][NextDiffer]_vars

\* ------------------------------------------------------------ properties
\* index() on the index last.name has just returned Ok
UpdateSucceeded ==
    last.op = "index" /\ last.step = "save" /\ last.res.ok

InTree(name, p) ==
    tree[p] # NoFile /\ PathDir(p) = root[name].meta.target_path

\* C1: after any successful update the index holds exactly one document
\* for every file currently in the target tree.
C1_OneDocumentPerFile ==
    UpdateSucceeded =>
        \A p \in Paths :
            InTree(last.name, p) => CopiesOfPath(root[last.name].docs, p) = 1

\* C2: after any successful update no document exists for a path that is
\* no longer present in the target tree.
C2_NoDocumentForAbsentPath ==
    UpdateSucceeded =>
        \A p \in Paths :
            ~InTree(last.name, p) => CopiesOfPath(root[last.name].docs, p) = 0

\* C3: within index() the snapshot is written only after commit() has
\* returned successfully; when commit() fails index() returns an error
\* and the snapshot is what it was.
C3_SnapshotOnlyAfterCommit ==
    [][/\ \A n \in Names :
            root'[n].snapshot # root[n].snapshot /\ last'.op = "index"
                => /\ writers[last'.h].name = n
                   /\ writers[last'.h].pc = "committed"
       /\ (last'.op = "index" /\ last'.step = "commit" /\ ~last'.res.ok
              /\ writers[last'.h].pc = "queued")
            => /\ writers'[last'.h].pc = "idle"
               /\ root'[last'.name].snapshot = root[last'.name].snapshot]_vars

\* a commit has just failed in an index that already had a snapshot
C3_Witness ==
    /\ last.op = "index" /\ last.step = "commit" /\ ~last.res.ok
    /\ root[last.name].snapshot.kind = "ok"
    /\ root[last.name].snapshot.records # <<>>
    /\ writers[last.h].pending # <<>>

\* C4: an update run aborted at any point is a no-op for the final state:
\* after the next successful update the index again holds exactly one
\* document per file in the tree and none for absent files.
C4_AbortedRunIsNoOp ==
    (UpdateSucceeded /\ last.flag) =>
        \A p \in Paths :
            CopiesOfPath(root[last.name].docs, p) =
                IF InTree(last.name, p) THEN 1 ELSE 0

\* C5: when the persisted snapshot cannot be decoded, a subsequent update
\* does not fail.
C5_CorruptSnapshotTreatedAsEmpty ==
    (last.op = "index" /\ last.step = "load")
        => last.res.err # "SnapshotParse"

\* C6: no partial commits: when index() returns an error at any step up
\* to and including commit, the committed documents and the persisted
\* snapshot are what they were before the call.
C6_NoPartialCommit ==
    [][(/\ last'.op = "index" /\ last' # last
        /\ last'.step \in {"load", "queue", "add", "commit"}
        /\ ~(last'.step = "commit" /\ last'.res.ok))
          => \A n \in Names : /\ root'[n].docs = root[n].docs
                              /\ root'[n].snapshot = root[n].snapshot]_vars

\* a commit that had operations to publish has just failed on a populated
\* index
C6_Witness ==
    /\ last.op = "index" /\ last.step = "commit" /\ ~last.res.ok
    /\ writers[last.h].pending # <<>>
    /\ root[last.name].docs # NoDocs

\* C7: at most one Writer exists per index at any time: while a Writer
\* obtained from get_writer(name) is alive, a further get_writer(name)
\* does not succeed.
C7_AtMostOneWriter ==
    \A w, v \in WriterIds :
        (w # v /\ writers[w].alive /\ writers[v].alive)
            => writers[w].name # writers[v].name

\* C8: a searcher opened before a commit observes the pre-commit document
\* set in all its searches (and one opened after it the post-commit set):
\* every search returns the set committed when the searcher was opened.
C8_SearcherSeesSetAtOpen ==
    (last.op = "search" /\ last.res.ok)
        => last.res.value = searchers[last.h].atOpen

\* C8, amended: every search returns exactly one committed document set,
\* the one committed when its searcher was opened or one committed since,
\* never a mixture and never uncommitted operations; a searcher opened
\* after the latest commit returns the post-commit set.
C8_SearchSeesOneCommittedSet ==
    (last.op = "search" /\ last.res.ok)
        => /\ last.res.value \in searchers[last.h].gens
           /\ ~searchers[last.h].commits
                => last.res.value = root[last.name].docs

\* a searcher opened before a commit has searched after the reader
\* reloaded, while a writer holds queued operations: it returned a
\* committed set that differs from the one at its opening
C8_Witness ==
    /\ last.op = "search" /\ last.res.ok
    /\ searchers[last.h].commits
    /\ last.res.value # searchers[last.h].atOpen
    /\ \E w \in WriterIds : writers[w].pending # <<>>

\* C9: create with a target path that does not exist fails with
\* TargetMissing and leaves the storage root as it was: no directory for
\* the name is left behind and list() still succeeds.
C9_FailedCreateLeavesNothing ==
    (last.op = "create" /\ last.res.err = "TargetMissing")
        => /\ ~root[last.name].exists
           /\ list(root).ok

\* C10: create on a name that already exists fails with AlreadyExists and
\* leaves every index as it was; create succeeds only from the absent
\* state and then yields an empty index that is listed and searchable.
C10_CreateOnlyFromAbsent ==
    [][(last'.op = "create" /\ last' # last)
          => /\ root[last'.name].exists
                  => last'.res.err = "AlreadyExists" /\ root' = root
             /\ last'.res.ok
                  => /\ ~root[last'.name].exists
                     /\ root'[last'.name].docs = NoDocs
                     /\ root'[last'.name].snapshot = NoSnapshot
                     /\ search_index(root', last'.name) = Ok(NoDocs)
                     /\ list(root').ok
                     /\ \E i \in 1..Len(list(root').value) :
                           list(root').value[i] =
                               IndexStorageMetadata(last'.name, last'.h)]_vars

\* C11: remove(name) of an existing index makes it absent: get_metadata,
\* open, get_writer and get_searcher then fail with NotFound, list() does
\* not contain the name and create(name, ...) succeeds again; remove of an
\* absent name fails with NotFound and changes nothing.
C11_RemoveMakesAbsent ==
    [][(last'.op = "remove" /\ last' # last)
          => LET n == last'.name
             IN IF root[n].exists
                THEN /\ last'.res.ok
                     /\ get_metadata(root', n).err = "NotFound"
                     /\ open(root', n).err = "NotFound"
                     /\ get_writer(root', n).err = "NotFound"
                     /\ search_index(root', n).err = "NotFound"
                     /\ list(root').ok =>
                          \A i \in 1..Len(list(root').value) :
                              list(root').value[i].index_name # n
                     /\ \A t \in Targets :
                          targets[t] => create(root', targets, n, t).res.ok
                ELSE /\ last'.res.err = "NotFound"
                     /\ root' = root]_vars

\* C12: after a successful reset of a populated index the metadata is
\* what it was and is listed, a search returns no document, the persisted
\* snapshot is empty, and the next update adds exactly one document for
\* every file of the target tree.
C12_ResetEmptiesIndex ==
    [][(last'.op = "reset" /\ last' # last /\ last'.res.ok)
          => LET n == last'.name
             IN /\ root'[n].meta = root[n].meta
                /\ list(root').ok
                /\ \E i \in 1..Len(list(root').value) :
                      list(root').value[i] = root[n].meta
                /\ search_index(root', n) = Ok(NoDocs)
                /\ read_file_index_metadata(root', n) = Ok(<<>>)
                /\ \A out \in update(root', targets, tree, n) :
                      out.res.ok =>
                        \A p \in Paths :
                          CopiesOfPath(out.root[n].docs, p) =
                            IF /\ tree[p] # NoFile
                               /\ PathDir(p) = root[n].meta.target_path
                            THEN 1 ELSE 0]_vars

\* a populated index whose target tree holds a file has just been reset
C12_Witness ==
    /\ last.op = "reset" /\ last.res.ok /\ last.flag
    /\ \E p \in Paths : InTree(last.name, p)
    /\ root[last.name].docs = NoDocs

\* C13: in every reachable state list() returns exactly one metadata entry
\* per existing index directory, strictly ascending by index_name.
C13_ListStrictlyOrdered ==
    LET l == list(root)
    IN /\ l.ok
       /\ Len(l.value) = Cardinality({n \in Names : root[n].exists})
       /\ \A n \in Names :
            root[n].exists =>
                \E i \in 1..Len(l.value) : l.value[i].index_name = n
       /\ \A i, j \in 1..Len(l.value) :
            i < j => NameRank(l.value[i].index_name)
                        < NameRank(l.value[j].index_name)

\* C14: codec round trip: for every list xs of records whose paths are at
\* most 65535 bytes (the empty list, unicode paths, duplicate records)
\* decode(encode(xs)) succeeds and equals xs, in the same order.
C14_RoundTrip ==
    (last.op = "decode" /\ last.step = "roundtrip")
        => last.res = Ok(last.h.records)

\* a list of two equal records with a two-byte unicode path went through
\* encode and decode
C14_Witness ==
    /\ last.op = "decode" /\ last.step = "roundtrip" /\ last.res.ok
    /\ Len(last.h.records) = 2
    /\ last.h.records[1] = last.h.records[2]
    /\ last.h.records[1].path = <<195, 169>>
    /\ last.h.records[1].size = 66051

\* C15: replacing any one byte of a valid blob by a different value makes
\* decode return BadMagic, UnsupportedVersion, Truncated, InvalidUtf8 or
\* ChecksumMismatch, never a list.
C15_FlipIsDetected ==
    (last.op = "decode" /\ last.step = "flip")
        => /\ ~last.res.ok
           /\ last.res.err \in {"BadMagic", "UnsupportedVersion", "Truncated",
                                "InvalidUtf8", "ChecksumMismatch"}

\* a byte inside the entries of a blob of two records was replaced and
\* decode answered ChecksumMismatch
C15_Witness ==
    /\ last.op = "decode" /\ last.step = "flip"
    /\ Len(last.h.records) = 2
    /\ \E i \in 13..(Len(last.h.bytes) - 8) :
          last.h.bytes[i] # last.h.valid[i]
    /\ last.res.err = "ChecksumMismatch"

\* C16: encode fails with PathTooLong exactly when some record's path is
\* longer than 65535 bytes, and then yields no blob; a path of exactly
\* 65535 bytes is encoded with its length in path_len, not truncated.
C16_PathTooLongIffOver65535 ==
    last.op = "encode"
        => LET xs == last.h.records
               n == IF xs = <<>> THEN 0 ELSE Len(xs[1].path)
           IN /\ ~last.res.ok <=> \E i \in 1..Len(xs) :
                                      Len(xs[i].path) > 65535
              /\ ~last.res.ok => /\ last.res.err = "PathTooLong"
                                 /\ last.res.value = <<>>
              /\ (last.res.ok /\ xs # <<>>)
                    => /\ last.res.value[29] * 256 + last.res.value[30] = n
                       /\ SubSeq(last.res.value, 31, 30 + n) = xs[1].path

\* a record whose path is exactly 65535 bytes long was encoded
C16_Witness ==
    /\ last.op = "encode" /\ last.res.ok
    /\ Len(last.h.records) = 1
    /\ Len(last.h.records[1].path) = 65535
    /\ Len(last.res.value) = 65535 + 38

\* C17: decode classifies header errors in a fixed order whatever the
\* checksum is: fewer than 20 bytes give TooShort; otherwise a wrong magic
\* gives BadMagic; otherwise a version other than 1 gives
\* UnsupportedVersion; ChecksumMismatch is reported only when all three
\* header checks pass.
C17_HeaderErrorOrder ==
    last.op = "decode"
        => LET b == last.h.bytes
               short == Len(b) < 20
               magic == SubSeq(b, 1, 4) = <<66, 84, 76, 88>>
               version == SubSeq(b, 5, 8) = <<0, 0, 0, 1>>
           IN /\ short => last.res.err = "TooShort"
              /\ (~short /\ ~magic) => last.res.err = "BadMagic"
              /\ (~short /\ magic /\ ~version)
                    => last.res.err = "UnsupportedVersion"
              /\ last.res.err = "ChecksumMismatch"
                    => ~short /\ magic /\ version

\* a blob with a wrong magic, a wrong version and a wrong checksum was
\* decoded and BadMagic was reported
C17_Witness ==
    /\ last.op = "decode" /\ last.step = "header"
    /\ Len(last.h.bytes) >= 20
    /\ last.h.bytes[4] # last.h.valid[4]
    /\ last.h.bytes[8] # last.h.valid[8]
    /\ last.h.bytes[Len(last.h.bytes)] # last.h.valid[Len(last.h.bytes)]
    /\ last.res.err = "BadMagic"

C19_DeltaListsDisjoint ==
    last.op = "diff"
        => LET delta == last.res.value
           IN /\ PathsOf(delta.added) \cap PathsOf(delta.modified) = {}
              /\ PathsOf(delta.added) \cap PathsOf(delta.removed) = {}
              /\ PathsOf(delta.modified) \cap PathsOf(delta.removed) = {}

\* a current list that holds one path twice was compared, and both
\* modified and removed came out non-empty
C19_Witness ==
    /\ last.op = "diff"
    /\ Len(last.h.current) = 2
    /\ last.h.current[1].path = last.h.current[2].path
    /\ last.res.value.modified # <<>>
    /\ last.res.value.removed # <<>>

\* C20: differ laws for every list, lists with duplicate paths included:
\* diff(x, x) has empty added, modified and removed; diff([], xs).added is
\* xs with modified and removed empty; diff(xs, []).removed is xs with
\* added and modified empty.
C20_DifferLaws ==
    last.op = "diff"
        => LET previous == last.h.previous
               current == last.h.current
               delta == last.res.value
           IN /\ previous = current
                   => /\ delta.added = <<>> /\ delta.modified = <<>>
                      /\ delta.removed = <<>>
              /\ previous = <<>>
                   => /\ delta.added = current /\ delta.modified = <<>>
                      /\ delta.removed = <<>>
              /\ current = <<>>
                   => /\ delta.removed = previous /\ delta.added = <<>>
                      /\ delta.modified = <<>>

C22_UnreadableFileIsSkipped ==
    UpdateSucceeded =>
        \A p \in Paths :
            (tree[p] # NoFile /\ tree[p] \notin FileStats) =>
                root[last.name].docs[[path |-> p, content |-> NoFile]] = 0

\* C23: the snapshot file is replaced atomically: whatever the outcome of
\* save_file_index_metadata, the file reads back afterwards as the complete
\* old list or as the complete new one.
C23_SnapshotReplacedAtomically ==
    [][(last'.op = "index" /\ last'.step = "save") =>
          root'[last'.name].snapshot \in
              {root[last'.name].snapshot,
               SnapshotOf(writers[last'.h].manifest)}]_vars

\* C24: inside one index() call every delete_term is issued before the
\* first add_document, every add_document before the commit and the commit
\* before the snapshot is written: the operations the call queues are
\* deletes followed by adds and leave the directory as it is, the commit
\* comes after the queueing and leaves the snapshot as it is, the snapshot
\* is written after the commit and nothing is queued or committed then.
C24_DeletesAddsCommitSnapshotInOrder ==
    [][last'.op = "index" =>
          LET before == writers[last'.h]
              after == writers'[last'.h]
              issued == SubSeq(after.pending, Len(before.pending) + 1,
                               Len(after.pending))
          IN /\ last'.step \in {"queue", "add"} =>
                   /\ before.pc = "idle"
                   /\ \A i, j \in 1..Len(issued) :
                         (/\ issued[i].kind = "add_document"
                          /\ issued[j].kind = "delete_term") => j < i
                   /\ root' = root
             /\ last'.step = "commit" =>
                   /\ before.pc = "queued"
                   /\ root'[last'.name].snapshot = root[last'.name].snapshot
             /\ last'.step = "save" =>
                   /\ before.pc = "committed"
                   /\ before.pending = <<>> /\ after.pending = <<>>
                   /\ root'[last'.name].docs = root[last'.name].docs]_vars

\* an index() call has queued a delete_term and then an add_document
C24_Witness ==
    /\ last.op = "index" /\ last.step = "queue"
    /\ Len(writers[last.h].pending) = 2
    /\ writers[last.h].pending[1].kind = "delete_term"
    /\ writers[last.h].pending[2].kind = "add_document"

\* C25: when a path occurs more than once in previous or in current, its
\* last occurrence in each list decides: the path is reported as added iff
\* previous does not hold it, as modified iff the size or modified_time of
\* its last occurrence in current differs from that of its last occurrence
\* in previous, and otherwise not at all.
C25_LastOccurrenceWins ==
    LET previous == last.h.previous
        current == last.h.current
        delta == last.res.value
        In(xs, path) == \E i \in 1..Len(xs) : xs[i].path = path
        Last(xs, path) ==
            xs[CHOOSE i \in 1..Len(xs) :
                  /\ xs[i].path = path
                  /\ \A j \in (i + 1)..Len(xs) : xs[j].path # path]
        Differ(a, b) ==
            a.size # b.size \/ a.modified_time # b.modified_time
    IN last.op = "diff" =>
          \A path \in PathsOf(current) :
              /\ In(delta.added, path) <=> ~In(previous, path)
              /\ In(delta.modified, path) <=>
                    /\ In(previous, path)
                    /\ Differ(Last(current, path), Last(previous, path))

\* C26: an update of one index changes the documents and the snapshot of
\* that index only: its metadata stays as it is, and so do the metadata,
\* the snapshot and the documents of every other index, and the tree.
C26_UpdateTouchesOnlyItsIndex ==
    [][last'.op = "update" =>
          /\ \A n \in Names \ {last'.name} : root'[n] = root[n]
          /\ root'[last'.name].meta = root[last'.name].meta
          /\ root'[last'.name].exists = root[last'.name].exists
          /\ root'[last'.name].index = root[last'.name].index
          /\ UNCHANGED <<targets, tree>>]_vars

\* index a was updated and holds documents while index b holds documents
\* and another snapshot
C26_Witness ==
    /\ last.op = "update" /\ last.name = "a" /\ last.res.ok
    /\ root["a"].docs # NoDocs
    /\ root["b"].docs # NoDocs
    /\ root["b"].snapshot # root["a"].snapshot

\* C27: reset is atomic: a reset that returns an error leaves every index
\* directory, the one it was called on included, as it was: still listed,
\* with its metadata, snapshot and documents.
C27_FailedResetLeavesIndexAsItWas ==
    [][(last'.op = "reset" /\ ~last'.res.ok) => root' = root]_vars

\* C28: however reset and an index() in flight on the same index
\* interleave, once they have returned every path of the persisted
\* snapshot has a document in the committed index.
C28_SnapshotPathsAreIndexed ==
    ~Running =>
        \A n \in Names :
            \A i \in 1..Len(root[n].snapshot.records) :
                CopiesOfPath(root[n].docs, root[n].snapshot.records[i].path)
                    >= 1

\* C29: of two create calls for the same absent name exactly one
\* succeeds, the other fails with AlreadyExists, and the metadata persisted
\* for the name is that of the call that succeeded.
C29_OneOfTwoCreatesWins ==
    (\A c \in CallIds : creating[c].pc = "done") =>
        \E won \in CallIds :
            /\ creating[won].res.ok
            /\ root[creating[won].name].meta =
                   IndexStorageMetadata(creating[won].name,
                                        creating[won].target)
            /\ \A c \in CallIds \ {won} :
                   creating[c].res = Err("AlreadyExists")

\* C30: an update is idempotent on an unchanged tree.  A successful
\* index() persists the scan it used as the snapshot.  An index() that
\* starts when the persisted snapshot holds exactly the records of the
\* tree, no run having failed since it was written, queues no delete and
\* no add, and its commit and its save leave the documents and the
\* records of the snapshot as they are.
C30_UpdateIsIdempotent ==
    [][last'.op = "index" =>
          LET n == last'.name
              before == writers[last'.h]
              after == writers'[last'.h]
              Records(xs) == {xs[i] : i \in 1..Len(xs)}
              Scanned == {FileIndexMetadata(p, tree[p]) :
                             p \in {q \in Paths : InTree(n, q)}}
              Unchanged ==
                  /\ ~hist[n]
                  /\ root[n].snapshot.kind = "ok"
                  /\ Records(root[n].snapshot.records) = Scanned
          IN /\ (last'.step = "save" /\ last'.res.ok) =>
                   /\ root'[n].snapshot = SnapshotOf(before.manifest)
                   /\ Records(before.manifest) = Scanned
             /\ (last'.step = "queue" /\ Unchanged) =>
                   after.pending = <<>>
             /\ (last'.step = "commit" /\ last'.res.ok /\ Unchanged) =>
                   root'[n].docs = root[n].docs
             /\ (last'.step = "save" /\ last'.res.ok /\ Unchanged) =>
                   Records(root'[n].snapshot.records)
                      = Records(root[n].snapshot.records)]_vars

\* an index() on a tree with files, all of them in the snapshot and in the
\* index, has queued nothing
C30_Witness ==
    /\ last.op = "index" /\ last.step = "queue"
    /\ writers[last.h].pending = <<>>
    /\ writers[last.h].manifest # <<>>
    /\ root[last.name].snapshot.records # <<>>
    /\ root[last.name].docs # NoDocs

====
